---- MODULE Spec2Model ----
(***************************************************************************)
(* The evolutionary simulation engine of individuums: the AndiN nucleotide *)
(* codec (andis.rs), the genome-level genetic operators (genes.rs), the    *)
(* population (creature.rs) and the world's step/generation state machine  *)
(* (world.rs).                                                             *)
(*                                                                         *)
(* A u32 nucleotide is kept as three limbs <<hi, mid, lo>> with            *)
(*   encoded = hi * 2^24 + mid * 2^8 + lo,   hi, lo \in 0..255,            *)
(*   mid \in 0..65535,                                                     *)
(* so that `encoded >> 24' is hi, `(encoded >> 8) & 0xFFFF' is mid and     *)
(* `encoded & 0xFF' is lo, and the 32-bit addition of Nucl::mutate carries  *)
(* from limb to limb and out of the word.                                  *)
(*                                                                         *)
(* f32 values are fixed point: a neuron accumulator counts units of 2^-18  *)
(* (signal in quarters times the 16-bit weight numerator), tanh is         *)
(* tabulated in units of 10^-4.                                            *)
(***************************************************************************)
EXTENDS Integers, Sequences, FiniteSets, TLC

VARIABLES
    \* World (world.rs:9-18) and its Creatures (creature.rs:20-24)
    width, height, n_creatures, mutation_coeff,
    genoms, positions,
    step, generation, steps_in_generation,
    status,
    \* one call of a genome-level genetic operator (genes.rs)
    op, parentA, parentB, cutLen, child, opStatus,
    \* history of the calls: the per-step passes of the generation under way
    \* and of the generation that ended last
    run, ended,
    \* history of one generation-end pass (creature.rs:56-65)
    end_log

worldVars == <<width, height, n_creatures, mutation_coeff, genoms, positions,
               step, generation, steps_in_generation, status>>
opVars == <<op, parentA, parentB, cutLen, child, opStatus>>
histVars == <<run, ended>>
vars == <<worldVars, opVars, histVars, end_log>>

----------------------------------------------------------------------------
\* Bounds of the model

MaxWidth == 3
MaxHeight == 2
MaxCreatures == 2
MaxNeurons == 1
MaxMutCoeff == 2
MaxSteps == 1
MaxGen == 1
MaxKey == 1
MaxLen == 4
MaxEndCreatures == 3
MaxEndNeurons == 2
MaxEndLoci == 4

----------------------------------------------------------------------------
\* Program constants

StepsInGenerationDefault == 300

InputCOUNT == 3
PR == 0
PL == 1
Osc == 2

OutputCOUNT == 5
MvN == 0
MvS == 1
MvW == 2
MvE == 3
Wait == 4

MutateBits == 5

----------------------------------------------------------------------------
\* AndiN: the nucleotide codec (andis.rs)

decode(hi, mid, lo) == <<hi, mid, lo>>

\* InputNeurons::from(u32): the top byte modulo COUNT
input(encoded) == encoded[1] % InputCOUNT

\* the numerator of weight() = ((encoded >> 8) & 0xFFFF) / 65536
weight(encoded) == encoded[2]

\* OutputNeurons::from(u32): the low byte modulo COUNT
output(encoded) == encoded[3] % OutputCOUNT

\* encoded + 2^k as a 33-bit sum: <<carry out of bit 31, the low 32 bits>>
AddBit(encoded, k) ==
    LET lo == encoded[3] + 2 ^ k
        mid == encoded[2] + (lo \div 256)
        hi == encoded[1] + (mid \div 65536)
    IN  <<hi \div 256, <<hi % 256, mid % 65536, lo % 256>>>>

\* Nucl::mutate for AndiN: `self.encoded += bit' with bit = 2^k.  A sum that
\* leaves u32 panics in a build with overflow checks and wraps in a build
\* without them: the set of outcomes the builds produce.
NuclMutate(encoded, k) ==
    IF AddBit(encoded, k)[1] = 1
    THEN {[panic |-> TRUE, encoded |-> encoded],
          [panic |-> FALSE, encoded |-> AddBit(encoded, k)[2]]}
    ELSE {[panic |-> FALSE, encoded |-> AddBit(encoded, k)[2]]}

\* Nucl::crossover for AndiN: a clone of the first argument
NuclCrossover(first, second) == first

\* Default for AndiN: encoded = 0
NuclDefault == <<0, 0, 0>>

----------------------------------------------------------------------------
\* The sample of words Genom::random draws from in the world
\*   WB     PL, weight 0xFFFF, MvE      (0x01FFFF03)
\*   WOscW  Osc, weight 0xFFFF, MvW     (0x02FFFF02)
\*   WOscS  Osc, weight 0xFFFF, MvS     (0x02FFFF01)
WB == decode(1, 65535, 3)
WOscW == decode(2, 65535, 2)
WOscS == decode(2, 65535, 1)
Words == {WB, WOscW, WOscS}

\* rng.gen_range(-1.0..1.0) in quarters: -1.0, 0.0, 0.75
OscSamples == {-4, 0, 3}

----------------------------------------------------------------------------
\* The per-step pass (andis.rs:80-165)

\* tanh(k/8) * 10^4 for k = 0..32
TanhTable ==
    <<0, 1244, 2449, 3584, 4621, 5546, 6351, 7039, 7616, 8093, 8483, 8798,
      9051, 9253, 9414, 9540, 9640, 9719, 9780, 9828, 9866, 9896, 9919, 9937,
      9951, 9961, 9970, 9977, 9982, 9986, 9989, 9991, 9993>>

\* f32::tanh of v * 2^-18, in units of 10^-4 (linear between table points)
tanh(v) ==
    LET m == IF v < 0 THEN -v ELSE v
        k == m \div 32768
        r == m % 32768
        t == IF k >= 32 THEN TanhTable[33]
             ELSE TanhTable[k + 1]
                  + ((TanhTable[k + 2] - TanhTable[k + 1]) * r) \div 32768
    IN  IF v < 0 THEN -t ELSE t

\* the signal of one nucleotide, in quarters (andis.rs:93-110 before `* weight')
signal(encoded, pos, w, osc) ==
    IF input(encoded) = Osc THEN osc
    ELSE IF input(encoded) = PL THEN (IF pos.x < w \div 2 THEN 4 ELSE 0)
    ELSE IF input(encoded) = PR THEN (IF pos.x >= w \div 2 THEN 4 ELSE 0)
    ELSE 0

RECURSIVE SumSignals(_, _, _, _, _, _)
\* neurons[o] after the loop over the nucleotides: the sum of signal * weight
\* over the loci k..Len(genom) whose output neuron is o (andis.rs:92-113)
SumSignals(genom, pos, w, draws, o, k) ==
    IF k > Len(genom) THEN 0
    ELSE (IF output(genom[k]) = o
          THEN signal(genom[k], pos, w, draws[k]) * weight(genom[k])
          ELSE 0)
         + SumSignals(genom, pos, w, draws, o, k + 1)

\* neurons[o] after `*x = x.tanh()' (andis.rs:115-117)
neuron(genom, pos, w, draws, o) == tanh(SumSignals(genom, pos, w, draws, o, 1))

hor_motion(genom, pos, w, draws) ==
    neuron(genom, pos, w, draws, MvW) - neuron(genom, pos, w, draws, MvE)

ver_motion(genom, pos, w, draws) ==
    neuron(genom, pos, w, draws, MvS) - neuron(genom, pos, w, draws, MvN)

\* the actions one creature queues (andis.rs:124-133)
Actions(genom, pos, w, draws) ==
    LET hm == hor_motion(genom, pos, w, draws)
        vm == ver_motion(genom, pos, w, draws)
    IN  (IF hm > 5000 THEN {"MoveEast"}
         ELSE IF hm < -5000 THEN {"MoveWest"} ELSE {})
        \cup
        (IF vm > 5000 THEN {"MoveSouth"}
         ELSE IF hm < -5000 THEN {"MoveNorth"} ELSE {})

\* the queued actions applied to one position (andis.rs:141-148)
ApplyActions(pos, acts) ==
    [x |-> pos.x + (IF "MoveEast" \in acts THEN 1 ELSE 0)
                 - (IF "MoveWest" \in acts THEN 1 ELSE 0),
     y |-> pos.y + (IF "MoveNorth" \in acts THEN 1 ELSE 0)
                 - (IF "MoveSouth" \in acts THEN 1 ELSE 0)]

SanitizeLowOnly(pos, w, h) ==
    [x |-> IF pos.x < 0 THEN 0 ELSE pos.x,
     y |-> IF pos.y < 0 THEN 0 ELSE pos.y]

\* sanitize positions (andis.rs:151-164)
Sanitize(pos, w, h) ==
    LET x1 == IF pos.x < 0 THEN 0 ELSE pos.x
        y1 == IF pos.y < 0 THEN 0 ELSE pos.y
    IN  [x |-> IF x1 >= w THEN w - 1 ELSE x1,
         y |-> IF y1 >= h THEN h - 1 ELSE y1]

\* one creature through one pass, its oscillator draws given
MoveCreature(genom, pos, w, h, draws) ==
    Sanitize(ApplyActions(pos, Actions(genom, pos, w, draws)), w, h)

\* the oscillator draws of one pass: one per creature and locus
OscDraws(gs) ==
    [1..Len(gs) -> [1..(IF Len(gs) = 0 THEN 0 ELSE Len(gs[1])) -> OscSamples]]

\* NeuronNucl::simulate for AndiN: the positions after one pass
SimulatePass(gs, ps, w, h, draws) ==
    [i \in 1..Len(ps) |-> MoveCreature(gs[i], ps[i], w, h, draws[i])]

----------------------------------------------------------------------------
\* Genom: the genome-level genetic operators (genes.rs)

Min(x, y) == IF x < y THEN x ELSE y

\* the cut indices `rng.gen_range(0..a.nucleotides.len())' can return; the
\* empty range makes gen_range panic
CutIndices(a) == 0..(Len(a) - 1)

\* Genom::crossover with the cut index n drawn (genes.rs:155-173): the zip of
\* the parents, its first n pairs crossed as (a, b), the rest as (b, a)
crossover(a, b, n) ==
    [i \in 1..Min(Len(a), Len(b)) |->
        IF i <= n THEN NuclCrossover(a[i], b[i]) ELSE NuclCrossover(b[i], a[i])]

\* Genom::mutate with the locus n (0-based) and the bit k drawn
\* (genes.rs:214-217): the outcomes [panic, nucleotides]
GenomMutate(g, n, k) ==
    {[panic |-> r.panic, nucleotides |-> [g EXCEPT ![n + 1] = r.encoded]] :
        r \in NuclMutate(g[n + 1], k)}

\* iter().skip(k).take(n) of the nucleotides s
SkipTake(s, k, n) == SubSeq(s, k + 1, Min(k + n, Len(s)))

\* Genom::crossover_mut with the cut index n drawn (genes.rs:125-142): the
\* buffer emptied by set_len(0), then filled as crossover fills its vector
crossover_mut(a, b, buffer, n) == SubSeq(buffer, 1, 0) \o crossover(a, b, n)

\* Genom::crossover_cut with the cut index n drawn (genes.rs:182-189)
crossover_cut(a, b, n) == SkipTake(a, 0, n) \o SkipTake(b, n, Len(b))

\* Genom::crossover_4th (genes.rs:194-205)
crossover_4th(a, b) ==
    LET n == Len(a) \div 4
    IN  SkipTake(a, 0, n) \o SkipTake(b, n, n)
        \o SkipTake(a, 2 * n, n) \o SkipTake(b, 3 * n, n)

\* Genom::cut (genes.rs:220-231)
cut(g, len) == SkipTake(g, len, Len(g)) \o [i \in 1..len |-> NuclDefault]

----------------------------------------------------------------------------
\* The generation-end pass (andis.rs:167-201, creature.rs:56-65)

Keys == 0..MaxKey

RECURSIVE SurvivorsFromHalf(_, _, _, _)
SurvivorsFromHalf(gs, ps, w, i) ==
    IF i > Len(gs) THEN <<>>
    ELSE (IF ps[i].x >= w \div 2 THEN <<gs[i]>> ELSE <<>>)
         \o SurvivorsFromHalf(gs, ps, w, i + 1)

RECURSIVE Survivors(_, _, _, _)
\* the genomes whose creature has x > width / 2, in population order
\* (andis.rs:169-175), from index i on
Survivors(gs, ps, w, i) ==
    IF i > Len(gs) THEN <<>>
    ELSE (IF ps[i].x > w \div 2 THEN <<gs[i]>> ELSE <<>>)
         \o Survivors(gs, ps, w, i + 1)

parents(gs, ps, w) == Survivors(gs, ps, w, 1)

RECURSIVE InsertByKey(_, _)
\* e put into the key-sorted list s behind the entries whose key is <= its own
InsertByKey(s, e) ==
    IF s = <<>> THEN <<e>>
    ELSE IF s[1][1] <= e[1] THEN <<s[1]>> \o InsertByKey(Tail(s), e)
    ELSE <<e>> \o s

RECURSIVE SortByKey(_)
\* partner.sort_by(|(a, _), (b, _)| a.cmp(b)): a stable sort (andis.rs:182)
SortByKey(s) ==
    IF s = <<>> THEN <<>>
    ELSE InsertByKey(SortByKey(SubSeq(s, 1, Len(s) - 1)), s[Len(s)])

\* the (key, parent) list, keyed and sorted (andis.rs:178-182)
MakePartner(prts, keys) ==
    SortByKey([i \in 1..Len(prts) |-> <<keys[i], prts[i]>>])

\* the keys of the partner list redrawn in place (andis.rs:191-193)
Rekey(partner, keys) ==
    [i \in 1..Len(partner) |-> <<keys[i], partner[i][2]>>]

\* the first batch: crossover(parent, partner) (andis.rs:184-188)
FirstBatch(prts, partner, cuts) ==
    [i \in 1..Len(prts) |-> crossover(prts[i], partner[i][2], cuts[i])]

\* a refill batch: crossover(partner, parent) (andis.rs:194-197)
RefillBatch(prts, partner, cuts) ==
    [i \in 1..Len(prts) |-> crossover(partner[i][2], prts[i], cuts[i])]

\* one batch's draws: a key and a cut index per parent
BatchDraws(prts) ==
    [keys : [1..Len(prts) -> Keys],
     cuts : [1..Len(prts) -> CutIndices(prts[1])]]

\* the refill passes `while new_genoms.len() < n' runs with p > 0 parents
NumRefills(p, n) == IF n <= p THEN 0 ELSE (n - 1) \div p

RECURSIVE Refill(_, _, _, _, _)
\* the while loop (andis.rs:190-198), one element of draws per pass
Refill(new_genoms, prts, partner, n, draws) ==
    IF Len(new_genoms) >= n \/ draws = <<>> THEN new_genoms
    ELSE LET rekeyed == Rekey(partner, draws[1].keys)
         IN  Refill(new_genoms \o RefillBatch(prts, rekeyed, draws[1].cuts),
                    prts, rekeyed, n, Tail(draws))

TruncateOneShort(new_genoms, n) == SubSeq(new_genoms, 1, n - 1)

\* new_genoms[..n].to_vec() (andis.rs:200)
Truncate(new_genoms, n) == SubSeq(new_genoms, 1, n)

RECURSIVE RefillPartners(_, _)
\* the partner list as each pass of the while loop zips it with the parents
\* (andis.rs:191-196), one element of draws per pass
RefillPartners(partner, draws) ==
    IF draws = <<>> THEN <<>>
    ELSE <<Rekey(partner, draws[1].keys)>>
         \o RefillPartners(Rekey(partner, draws[1].keys), Tail(draws))

\* AndiN::simulate_end: the outcomes [status, genoms, partners] over all
\* draws, partners being the partner list of the first batch followed by
\* that of every refill pass.  With no parent and n > 0 the while loop never
\* ends; with parents of length 0 the first crossover draws from an empty
\* range.
simulate_end_log(gs, ps, w) ==
    LET n == Len(gs)
        prts == parents(gs, ps, w)
        p == Len(prts)
    IN  IF p = 0
        THEN (IF n = 0
              THEN {[status |-> "ok", genoms |-> <<>>, partners |-> <<<<>>>>]}
              ELSE {[status |-> "hang", genoms |-> gs, partners |-> <<<<>>>>]})
        ELSE IF CutIndices(prts[1]) = {}
        THEN {[status |-> "panic", genoms |-> gs,
               partners |-> <<MakePartner(prts, keys)>>] :
                 keys \in [1..p -> Keys]}
        ELSE {[status |-> "ok",
               genoms |-> Truncate(
                   Refill(FirstBatch(prts, MakePartner(prts, first.keys),
                                     first.cuts),
                          prts, MakePartner(prts, first.keys), n, rest), n),
               partners |-> <<MakePartner(prts, first.keys)>>
                   \o RefillPartners(MakePartner(prts, first.keys), rest)] :
                 first \in BatchDraws(prts),
                 rest \in [1..NumRefills(p, n) -> BatchDraws(prts)]}

\* AndiN::simulate_end: the outcomes [status, genoms]
simulate_end(gs, ps, w) ==
    {[status |-> r.status, genoms |-> r.genoms] :
        r \in simulate_end_log(gs, ps, w)}

\* make_positions: n positions drawn in [0, w) x [0, h) (creature.rs:26-31)
make_positions(n, w, h) == [1..n -> [x : 0..(w - 1), y : 0..(h - 1)]]

\* the mutation step of end_generation (creature.rs:59-62) on the new
\* genomes: the outcomes [status, genoms]
mutation(gs, n, coeff) ==
    IF coeff = 0 THEN {[status |-> "panic", genoms |-> gs]}
    ELSE UNION {
        IF mutation_n < n
        THEN (IF CutIndices(gs[mutation_n + 1]) = {}
              THEN {[status |-> "panic", genoms |-> gs]}
              ELSE {[status |-> IF r.panic THEN "panic" ELSE "ok",
                     genoms |-> [gs EXCEPT ![mutation_n + 1] = r.nucleotides]] :
                      r \in UNION {GenomMutate(gs[mutation_n + 1], l, k) :
                                      l \in CutIndices(gs[mutation_n + 1]),
                                      k \in 0..(MutateBits - 1)}})
        ELSE {[status |-> "ok", genoms |-> gs]}
        : mutation_n \in 0..(coeff - 1)}

\* NeuronNucl::end_generation after simulate_end left the outcome se
\* (creature.rs:59-64): the outcomes [status, genoms, positions].  A pass
\* that hangs or panics leaves what it had written so far.
mutate_and_respawn(se, n, ps, w, h, coeff) ==
    IF se.status # "ok"
    THEN {[status |-> se.status, genoms |-> se.genoms, positions |-> ps]}
    ELSE UNION {
        IF mu.status # "ok"
        THEN {[status |-> mu.status, genoms |-> mu.genoms, positions |-> ps]}
        ELSE {[status |-> "ok", genoms |-> mu.genoms, positions |-> np] :
                np \in make_positions(n, w, h)}
        : mu \in mutation(se.genoms, n, coeff)}

\* NeuronNucl::end_generation: the outcomes [status, genoms, positions]
end_generation(gs, ps, w, h, coeff) ==
    UNION {mutate_and_respawn(se, Len(gs), ps, w, h, coeff) :
              se \in simulate_end(gs, ps, w)}

----------------------------------------------------------------------------
\* World: the step/generation state machine (world.rs)

\* the positions one creature can have after k more passes, from those in P
CreatureImage(genom, P, w, h) ==
    {MoveCreature(genom, pos, w, h, d) :
        pos \in P, d \in [1..Len(genom) -> OscSamples]}

RECURSIVE CreatureReach(_, _, _, _, _)
CreatureReach(genom, P, w, h, k) ==
    IF k = 0 THEN P
    ELSE IF CreatureImage(genom, P, w, h) = P THEN P
    ELSE CreatureReach(genom, CreatureImage(genom, P, w, h), w, h, k - 1)

\* the positions the loop `while self.step < self.steps_in_generation'
\* (world.rs:123-126) can leave after its k passes: every creature moves by
\* its own genome, position and draws alone
LoopPositions(gs, ps, w, h, k) ==
    LET reach == [i \in 1..Len(ps) |-> CreatureReach(gs[i], {ps[i]}, w, h, k)]
    IN  {f \in make_positions(Len(ps), w, h) :
            \A i \in 1..Len(ps) : f[i] \in reach[i]}

\* the passes the loop of simulate_until_endofgeneration runs
LoopPasses(s, limit) == IF s < limit THEN limit - s ELSE 0

StepAfterBoundaryKept(s) == s

\* `self.step = 0' at a generation boundary (world.rs:127, world.rs:137)
StepAfterBoundary(s) == 0

BoundaryReachedAtLimit(s, limit) == s >= limit

BoundaryReachedLate(s, limit) == s > limit + 1

\* `self.step > self.steps_in_generation' (world.rs:136)
BoundaryReached(s, limit) == s > limit

\* what a call leaves once the boundary is reached: the counters are written
\* before end_generation runs (world.rs:127-129, world.rs:137-139)
Boundary(s, ps) ==
    \E r \in end_generation(genoms, ps, width, height, mutation_coeff) :
        /\ step' = StepAfterBoundary(s)
        /\ generation' = generation + 1
        /\ genoms' = r.genoms
        /\ positions' = r.positions
        /\ status' = r.status

Running == status = "ok" /\ generation < MaxGen

\* no per-step pass run, no call made
NoRun == [passes |-> 0, calls |-> {}, limits |-> {}]

\* the run after a call `name' that ran k per-step passes (N::simulate,
\* world.rs:124, world.rs:133) under the limit steps_in_generation
RunAfter(name, k) ==
    [passes |-> run.passes + k,
     calls |-> run.calls \cup {name},
     limits |-> run.limits \cup {steps_in_generation}]

\* no generation-end pass made
NoEndLog ==
    [called |-> FALSE, genoms |-> <<>>, positions |-> <<>>,
     reproduced |-> FALSE, partners |-> <<>>, offspring |-> <<>>]

\* World::new (world.rs:31-56), Creatures::new (creature.rs:41-48)
Init ==
    /\ width \in 1..MaxWidth
    /\ height \in 1..MaxHeight
    /\ n_creatures \in 0..MaxCreatures
    /\ mutation_coeff \in 0..MaxMutCoeff
    /\ \E n_neurons \in 0..MaxNeurons :
           genoms \in [1..n_creatures -> [1..n_neurons -> Words]]
    /\ positions \in make_positions(n_creatures, width, height)
    /\ step = 0
    /\ generation = 0
    /\ steps_in_generation = StepsInGenerationDefault
    /\ status = "ok"
    /\ op = "none" /\ parentA = <<>> /\ parentB = <<>> /\ cutLen = 0
    /\ child = <<>> /\ opStatus = "ok"
    /\ run = NoRun /\ ended = NoRun
    /\ end_log = NoEndLog

\* World::simulate (world.rs:132-141)
Simulate ==
    /\ Running
    /\ BoundaryReached(step + 1, steps_in_generation) \/ step <= MaxSteps
    /\ \E ps \in {SimulatePass(genoms, positions, width, height, draws) :
                      draws \in OscDraws(genoms)} :
         IF BoundaryReached(step + 1, steps_in_generation)
         THEN /\ Boundary(step + 1, ps)
              /\ ended' = RunAfter("simulate", 1)
              /\ run' = NoRun
         ELSE /\ step' = step + 1
              /\ positions' = ps
              /\ run' = RunAfter("simulate", 1)
              /\ UNCHANGED <<generation, genoms, status, ended>>
    /\ UNCHANGED <<width, height, n_creatures, mutation_coeff,
                   steps_in_generation, opVars, end_log>>

\* World::simulate_until_endofgeneration (world.rs:122-130)
SimulateUntilEndOfGeneration ==
    /\ Running
    /\ \E ps \in LoopPositions(genoms, positions, width, height,
                                LoopPasses(step, steps_in_generation)) :
         Boundary(IF step < steps_in_generation THEN steps_in_generation
                  ELSE step, ps)
    /\ ended' = RunAfter("simulate_until_endofgeneration",
                         LoopPasses(step, steps_in_generation))
    /\ run' = NoRun
    /\ UNCHANGED <<width, height, n_creatures, mutation_coeff,
                   steps_in_generation, opVars, end_log>>

\* World::set_steps_in_generation (world.rs:152-154)
SetStepsInGeneration ==
    /\ Running
    /\ \E steps \in 0..MaxSteps : steps_in_generation' = steps
    /\ UNCHANGED <<width, height, n_creatures, mutation_coeff, genoms,
                   positions, step, generation, status, opVars, histVars,
                   end_log>>

Next ==
    \/ Simulate
    \/ SimulateUntilEndOfGeneration
    \/ SetStepsInGeneration

Spec == Init /\ [][Next]_vars

----------------------------------------------------------------------------
\* One call of a genetic operator on genomes of any length (genes.rs)

\* the words of the operators' genomes: 0x00000000, 0x000000FF (a sum that
\* carries into the weight field) and 0xFFFFFFFF (a sum that leaves u32)
OpWords == {decode(0, 0, 0), decode(0, 0, 255), decode(255, 65535, 255)}

OpGenoms == UNION {[1..l -> OpWords] : l \in 0..MaxLen}

InitOps ==
    /\ parentA \in OpGenoms
    /\ parentB \in OpGenoms
    /\ op = "none" /\ cutLen = 0 /\ child = <<>> /\ opStatus = "ok"
    /\ width = 1 /\ height = 1 /\ n_creatures = 0 /\ mutation_coeff = 1
    /\ genoms = <<>> /\ positions = <<>>
    /\ step = 0 /\ generation = 0
    /\ steps_in_generation = StepsInGenerationDefault
    /\ status = "ok"
    /\ run = NoRun /\ ended = NoRun
    /\ end_log = NoEndLog

\* the call ends in gen_range's panic on an empty range
Panics(name) ==
    /\ op' = name
    /\ opStatus' = "panic"
    /\ UNCHANGED <<parentA, parentB, cutLen, child, worldVars, histVars,
                   end_log>>

\* the call returns the genome g
Returns(name, g) ==
    /\ op' = name
    /\ opStatus' = "ok"
    /\ child' = g
    /\ UNCHANGED <<parentA, parentB, cutLen, worldVars, histVars, end_log>>

\* Genom::crossover(a, b, rng) (genes.rs:150-174)
Crossover ==
    /\ op = "none"
    /\ IF CutIndices(parentA) = {} THEN Panics("crossover")
       ELSE \E n \in CutIndices(parentA) :
               Returns("crossover", crossover(parentA, parentB, n))

\* Genom::crossover_mut(a, b, child, rng) (genes.rs:121-143)
CrossoverMut ==
    /\ op = "none"
    /\ IF CutIndices(parentA) = {} THEN Panics("crossover_mut")
       ELSE \E n \in CutIndices(parentA), buffer \in {<<>>, <<NuclDefault>>} :
               Returns("crossover_mut",
                       crossover_mut(parentA, parentB, buffer, n))

\* Genom::crossover_cut(a, b, rng) (genes.rs:178-190)
CrossoverCut ==
    /\ op = "none"
    /\ IF CutIndices(parentA) = {} THEN Panics("crossover_cut")
       ELSE \E n \in CutIndices(parentA) :
               Returns("crossover_cut", crossover_cut(parentA, parentB, n))

\* Genom::crossover_4th(a, b) (genes.rs:194-205)
Crossover4th ==
    /\ op = "none"
    /\ Returns("crossover_4th", crossover_4th(parentA, parentB))

\* parentA.mutate(rng) (genes.rs:210-218): child is the genome afterwards
Mutate ==
    /\ op = "none"
    /\ IF CutIndices(parentA) = {}
       THEN Panics("mutate")
       ELSE \E n \in CutIndices(parentA), k \in 0..(MutateBits - 1) :
              \E r \in GenomMutate(parentA, n, k) :
                 /\ op' = "mutate"
                 /\ opStatus' = IF r.panic THEN "panic" ELSE "ok"
                 /\ child' = r.nucleotides
                 /\ UNCHANGED <<parentA, parentB, cutLen, worldVars,
                                histVars, end_log>>

\* parentA.cut(len) (genes.rs:220-231): child is the genome afterwards
Cut ==
    /\ op = "none"
    /\ \E len \in 0..(MaxLen + 1) :
          /\ op' = "cut"
          /\ cutLen' = len
          /\ opStatus' = "ok"
          /\ child' = cut(parentA, len)
          /\ UNCHANGED <<parentA, parentB, worldVars, histVars, end_log>>

NextOps ==
    \/ Crossover
    \/ CrossoverMut
    \/ CrossoverCut
    \/ Crossover4th
    \/ Mutate
    \/ Cut

SpecOps == InitOps /\ [][NextOps]_vars

----------------------------------------------------------------------------
\* One generation-end pass on a population of up to MaxEndCreatures
\* creatures (creature.rs:56-65, andis.rs:167-201)

\* the words of the population's genomes
EndWords == {WB, WOscW}

\* a world at a generation boundary
InitEnd ==
    /\ width = MaxWidth
    /\ height = 1
    /\ n_creatures \in 0..MaxEndCreatures
    /\ mutation_coeff \in 0..MaxMutCoeff
    /\ \E n_neurons \in 0..MaxEndNeurons :
           /\ n_creatures * n_neurons <= MaxEndLoci
           /\ genoms \in [1..n_creatures -> [1..n_neurons -> EndWords]]
    /\ positions \in make_positions(n_creatures, width, height)
    /\ step = 0
    /\ generation = 0
    /\ steps_in_generation = StepsInGenerationDefault
    /\ status = "ok"
    /\ op = "none" /\ parentA = <<>> /\ parentB = <<>> /\ cutLen = 0
    /\ child = <<>> /\ opStatus = "ok"
    /\ run = NoRun /\ ended = NoRun
    /\ end_log = NoEndLog

\* N::end_generation(&mut self.creatures, rng, width, height)
\* (creature.rs:56-65)
EndGeneration ==
    /\ status = "ok"
    /\ ~end_log.called
    /\ \E se \in simulate_end_log(genoms, positions, width) :
         /\ end_log' = [called |-> TRUE,
                        genoms |-> genoms, positions |-> positions,
                        reproduced |-> se.status = "ok",
                        partners |-> se.partners,
                        offspring |-> se.genoms]
         /\ \E r \in mutate_and_respawn(
                         [status |-> se.status, genoms |-> se.genoms],
                         Len(genoms), positions, width, height,
                         mutation_coeff) :
               /\ genoms' = r.genoms
               /\ positions' = r.positions
               /\ status' = r.status
    /\ UNCHANGED <<width, height, n_creatures, mutation_coeff, step,
                   generation, steps_in_generation, opVars, histVars>>

NextEnd == EndGeneration

SpecEnd == InitEnd /\ [][NextEnd]_vars

----------------------------------------------------------------------------
\* Properties of the world (checked under Spec)

InBounds(pos) == 0 <= pos.x /\ pos.x < width /\ 0 <= pos.y /\ pos.y < height

\* a call that moved the world on: set_steps_in_generation changes nothing
\* but steps_in_generation, simulate and simulate_until_endofgeneration
\* never change it
SimulationCall == steps_in_generation' = steps_in_generation

\* C1: in every reachable state the genome collection and the position
\* collection both have the length n given to World::new.
C1_PopulationSize ==
    Len(genoms) = n_creatures /\ Len(positions) = n_creatures

\* a population of two that went through a generation-end pass
C1_Witness ==
    generation = 1 /\ status = "ok" /\ n_creatures = 2 /\ Len(genoms) = 2

\* C2: on a board with width >= 1 and height >= 1 every creature position
\* satisfies 0 <= x < width and 0 <= y < height, after construction, after
\* every per-step pass and after every respawn.
C2_PositionBounds ==
    \A i \in 1..Len(positions) : InBounds(positions[i])

\* after a per-step pass a creature driven east by its oscillator stands on
\* the east edge of the widest board, and one driven south on the south edge
C2_Witness ==
    /\ step > 0 /\ width = MaxWidth /\ Len(positions) = 2
    /\ genoms[1] = <<WOscW>> /\ positions[1].x = width - 1
    /\ genoms[2] = <<WOscS>> /\ positions[2].y = 0

\* C3: generation never decreases; a call that increments generation
\* increments it by one and leaves step = 0; and simulate() or
\* simulate_until_endofgeneration() leave step = 0 only when they increment
\* generation.
C3_CounterProtocol ==
    [][/\ generation' >= generation
       /\ (generation' # generation =>
              generation' = generation + 1 /\ step' = 0)
       /\ (SimulationCall /\ step' = 0 => generation' = generation + 1)]_vars

\* a generation boundary passed by simulate() steps and completed
C3_Witness == generation = 1 /\ step = 0 /\ status = "ok" /\ n_creatures > 0

\* C4: a generation-end pass entered with n > 0 creatures, none of them at
\* x > width / 2, terminates and leaves n genomes.
C4_ZeroParentsFallback ==
    (Len(genoms) > 0 /\ parents(genoms, positions, width) = <<>>)
        => (status # "hang" /\ Len(genoms) = n_creatures)

\* C5: in a per-step pass a creature with x < width / 2 whose genome is the
\* single locus (PL, maximal weight, MvE) has its x increased by one,
\* clamped at the east edge.
C5_ScenarioB ==
    [][(step' = step + 1 /\ generation' = generation) =>
         \A i \in 1..Len(genoms) :
            (genoms[i] = <<WB>> /\ positions[i].x < width \div 2) =>
               positions'[i].x = Min(positions[i].x + 1, width - 1)]_vars

\* C7: one call of simulate_until_endofgeneration() on a freshly constructed
\* world (steps_in_generation >= 1, a mutation coefficient >= 1, genomes of
\* at least one locus) returns with the population size unchanged,
\* generation = 1 and step = 0.
C7_ScenarioA ==
    [][(/\ generation = 0 /\ step = 0 /\ steps_in_generation >= 1
        /\ mutation_coeff >= 1
        /\ \A i \in 1..Len(genoms) : Len(genoms[i]) >= 1
        /\ SimulationCall /\ generation' # generation) =>
         (/\ status' = "ok"
          /\ Len(genoms') = n_creatures /\ Len(positions') = n_creatures
          /\ generation' = 1 /\ step' = 0)]_vars

\* C10: with population size 0 every call completes without a crash and
\* both collections stay empty.
C10_EmptyPopulation ==
    n_creatures = 0 => (status = "ok" /\ genoms = <<>> /\ positions = <<>>)

----------------------------------------------------------------------------
\* Properties of the genetic operators (checked under SpecOps)

GenomeCrossovers == {"crossover", "crossover_mut", "crossover_cut", "crossover_4th"}

\* C6: a genome-level crossover called with parents of different lengths
\* fails with an error and returns no offspring.
C6_MismatchFailsFast ==
    (op \in GenomeCrossovers /\ Len(parentA) # Len(parentB))
        => opStatus = "panic"

\* C8: for parents of equal length L, any L, crossover and crossover_cut
\* each return a genome of length L.
C8_CrossoverLength ==
    (op \in {"crossover", "crossover_cut"} /\ Len(parentA) = Len(parentB))
        => (opStatus = "ok" /\ Len(child) = Len(parentA))

\* C9: Genom::mutate on a genome of at least one locus returns with the
\* genome's length unchanged and exactly one locus holding another 32-bit
\* value than before, whatever the word of the chosen locus.
C9_MutationLocality ==
    (op = "mutate" /\ Len(parentA) >= 1) =>
        /\ opStatus = "ok"
        /\ Len(child) = Len(parentA)
        /\ Cardinality({i \in 1..Len(parentA) : child[i] # parentA[i]}) = 1

\* the parent the claim of C11 copies locus i (0-based) of a child of length
\* l from: a in the first and third quarter, b in the second and the fourth,
\* which ends at l - 1
QuarterOfA(i, l) ==
    LET q == l \div 4 IN i < q \/ (2 * q <= i /\ i < 3 * q)

\* C11: for parents a, b of equal length L, crossover_4th(a, b) returns a
\* genome of length L whose locus i is a copy of a[i] in the first and third
\* quarter and of b[i] in the second and fourth: no locus is dropped.
C11_QuartersCoverAll ==
    (op = "crossover_4th" /\ Len(parentA) = Len(parentB)) =>
        /\ Len(child) = Len(parentA)
        /\ \A i \in 1..Len(child) :
              child[i] = IF QuarterOfA(i - 1, Len(parentA))
                         THEN parentA[i] ELSE parentB[i]

\* C16: Genom::cut(len) on a genome of length L, for any len >= 0, leaves a
\* genome of length L: the loci behind the first len in order, then default
\* units up to length L.
C16_CutKeepsLength ==
    op = "cut" =>
        /\ Len(child) = Len(parentA)
        /\ \A i \in 1..Len(child) :
              child[i] = IF i + cutLen <= Len(parentA)
                         THEN parentA[i + cutLen] ELSE NuclDefault

----------------------------------------------------------------------------
\* Properties of the generation boundary (checked under Spec)

\* C12: a generation driven from step 0 under one constant limit S runs
\* S + 1 per-step passes before its generation-end pass when driven by
\* simulate() calls only, and S passes when driven by one
\* simulate_until_endofgeneration() call.
C12_BoundaryRulesDiffer ==
    \A S \in ended.limits :
        ended.limits = {S} =>
            /\ ended.calls = {"simulate"} => ended.passes = S + 1
            /\ ended.calls = {"simulate_until_endofgeneration"} =>
                  ended.passes = S

\* a generation ended by the second of two simulate() calls under the limit 1
C12_Witness ==
    /\ generation = 1 /\ ended.calls = {"simulate"}
    /\ ended.limits = {1} /\ ended.passes = 2

\* C17 as stated: step <= steps_in_generation in every state between calls.
C17_StepWithinLimit == step <= steps_in_generation

\* C17 as amended: every call of simulate() or
\* simulate_until_endofgeneration() leaves step <= steps_in_generation.
C17_StepWithinLimitAfterPass ==
    [][SimulationCall => step' <= steps_in_generation']_vars

\* a simulate() call that raised step to the limit without passing it
C17_Witness ==
    /\ step = 1 /\ steps_in_generation = 1 /\ generation = 0
    /\ run.calls = {"simulate"} /\ run.limits = {1}

----------------------------------------------------------------------------
\* Properties of the generation-end pass (checked under SpecEnd)

\* a (key, parent) list in the order of its keys
IsSortedByKey(partner) ==
    \A i \in 1..(Len(partner) - 1) : partner[i][1] <= partner[i + 1][1]

\* the indices of the genomes the pass left other than reproduction made them
Mutated ==
    {i \in 1..Len(end_log.offspring) :
        i > Len(genoms) \/ genoms[i] # end_log.offspring[i]}

\* C13: every refill pass of a generation-end pass that completes zips the
\* parents with the (key, parent) list sorted by the keys drawn in that pass.
C13_RefillResorts ==
    (end_log.reproduced /\ status = "ok") =>
        \A k \in 2..Len(end_log.partners) : IsSortedByKey(end_log.partners[k])

\* C14: every locus i of every genome that selection and reproduction
\* produce is a copy of locus i of a previous-generation genome whose
\* creature stood at x > width / 2.
C14_OffspringFromParents ==
    end_log.reproduced =>
        \A c \in 1..Len(end_log.offspring) :
            \A i \in 1..Len(end_log.offspring[c]) :
                \E j \in 1..Len(end_log.genoms) :
                    /\ end_log.positions[j].x > width \div 2
                    /\ i <= Len(end_log.genoms[j])
                    /\ end_log.offspring[c][i] = end_log.genoms[j][i]

\* reproduction refilled a population of two from its one parent, while the
\* creature outside the right half held other words at both loci
C14_Witness ==
    /\ end_log.reproduced
    /\ Len(end_log.offspring) = 2 /\ Len(end_log.partners) = 2
    /\ \E j \in 1..Len(end_log.genoms) :
          /\ end_log.positions[j].x <= width \div 2
          /\ Len(end_log.genoms[j]) = 2
          /\ \A k \in 1..Len(end_log.genoms) : \A i \in 1..2 :
                k # j => end_log.genoms[k][i] # end_log.genoms[j][i]

\* C15: for every mutation coefficient, the generation-end pass of a
\* population of n >= 1 completes with at most one genome other than
\* reproduction made it, at an index below the mutation coefficient.
C15_OneMutationDraw ==
    (end_log.reproduced /\ Len(end_log.offspring) >= 1) =>
        /\ status = "ok"
        /\ Cardinality(Mutated) <= 1
        /\ \A i \in Mutated : i - 1 < mutation_coeff

====
